---- MODULE Spec2Model ----
(***************************************************************************)
(* Resume shortlisting: the calculate-similarity edge function (tokenize,  *)
(* TF-IDF weighting, cosine similarity, matched keywords, ranking and the  *)
(* delete/insert of similarity_results), the process-resume and            *)
(* process-job-description edge functions that fill the tables it reads,   *)
(* the FileUpload client that drives the three of them, and the Dashboard  *)
(* and ResultsDisplay components that show the stored results.             *)
(*                                                                         *)
(* Texts are sequences of one-character strings.  JavaScript numbers are   *)
(* modelled exactly where the code's arithmetic is rational; Math.log is a *)
(* table to three decimals (its sign and its zero are exact); the quotient *)
(* dot / (sqrt(mag1) * sqrt(mag2)) is kept as a sign and an exact squared  *)
(* ratio of arbitrary-precision naturals, and rounded from that.           *)
(***************************************************************************)
EXTENDS Integers, Sequences, FiniteSets, TLC

(***************************************************************************)
(* Bounds of the model.                                                    *)
(***************************************************************************)
\* rows the resumes table may hold
MaxResumes == 2
\* most tokens any document of the model's pools yields
MaxTokens == 12
\* weights of the vectors cosineSimilarity is called with: -MaxWeight .. MaxWeight
MaxWeight == 2
\* submissions of the upload form
MaxSubmits == 2
\* length of the token sequences findMatchedKeywords is called with
MaxKeywordTokens == 3
\* length of the texts tokenize and extractSkills are called with
MaxTextLength == 4
\* pieces the contents process-resume is called with are put together from
MaxNameParts == 3

(***************************************************************************)
(* Characters and strings.                                                 *)
(***************************************************************************)
LowerLetters == <<"a","b","c","d","e","f","g","h","i","j","k","l","m",
                  "n","o","p","q","r","s","t","u","v","w","x","y","z">>
UpperLetters == <<"A","B","C","D","E","F","G","H","I","J","K","L","M",
                  "N","O","P","Q","R","S","T","U","V","W","X","Y","Z">>
Digits == {"0","1","2","3","4","5","6","7","8","9"}
\* the characters of the model's texts that the regex class \s matches
Whitespace == {" ", "\n", "\t"}

Range(s) == {s[i] : i \in DOMAIN s}

IsLower(c) == c \in Range(LowerLetters)
IsUpper(c) == c \in Range(UpperLetters)
\* the regex class \w
IsWordChar(c) == IsLower(c) \/ IsUpper(c) \/ c \in Digits \/ c = "_"

\* String.prototype.toLowerCase, one character
LowerChar(c) ==
    IF IsUpper(c)
    THEN LowerLetters[CHOOSE i \in DOMAIN UpperLetters : UpperLetters[i] = c]
    ELSE c

toLowerCase(text) == [i \in DOMAIN text |-> LowerChar(text[i])]

\* the elements of a set of numbers, in increasing order
Ascending(set) ==
    [k \in 1 .. Cardinality(set) |->
        CHOOSE i \in set : Cardinality({j \in set : j <= i}) = k]

\* String.prototype.trim
trim(s) ==
    LET solid == {i \in DOMAIN s : s[i] \notin Whitespace}
    IN  IF solid = {} THEN <<>>
        ELSE SubSeq(s, CHOOSE i \in solid : \A j \in solid : i <= j,
                       CHOOSE i \in solid : \A j \in solid : j <= i)

\* String.prototype.split(/\s+/): the pieces between maximal whitespace runs,
\* the empty pieces at either end included ("" splits into one empty piece).
SplitWhitespace(s) ==
    LET starts == {i \in DOMAIN s : /\ s[i] \notin Whitespace
                                    /\ (i = 1 \/ s[i - 1] \in Whitespace)}
        EndOf(i) == CHOOSE e \in i .. Len(s) :
                        /\ \A j \in i .. e : s[j] \notin Whitespace
                        /\ (e = Len(s) \/ s[e + 1] \in Whitespace)
        first == Ascending(starts)
        words == [k \in DOMAIN first |-> SubSeq(s, first[k], EndOf(first[k]))]
    IN  IF s = <<>> THEN <<(<<>>)>>
        ELSE (IF s[1] \in Whitespace THEN <<(<<>>)>> ELSE <<>>)
             \o words
             \o (IF s[Len(s)] \in Whitespace THEN <<(<<>>)>> ELSE <<>>)

\* the filter of line 19 left out
tokenizeUnfiltered(text) ==
    LET lowered  == toLowerCase(text)
        replaced == [i \in DOMAIN lowered |->
                        IF IsLower(lowered[i]) \/ lowered[i] \in Digits
                           \/ lowered[i] \in Whitespace
                        THEN lowered[i] ELSE " "]
    IN  SplitWhitespace(replaced)

tokenize(text) ==
    LET lowered  == toLowerCase(text)
        replaced == [i \in DOMAIN lowered |->
                        IF IsLower(lowered[i]) \/ lowered[i] \in Digits
                           \/ lowered[i] \in Whitespace
                        THEN lowered[i] ELSE " "]
        LongEnough(word) == Len(word) > 2
    IN  SelectSeq(SplitWhitespace(replaced), LongEnough)

\* whitespace runs cut to their first character, which is kept as it is
CollapseWhitespaceToFirst(s) ==
    LET kept == Ascending({i \in DOMAIN s :
                    s[i] \notin Whitespace \/ i = 1 \/ s[i - 1] \notin Whitespace})
    IN  [k \in DOMAIN kept |-> s[kept[k]]]

\* process-resume's cleanText: whitespace runs to one space, every character
\* outside [\w\s@.\-] to a space, trim.
CollapseWhitespace(s) ==
    LET kept == Ascending({i \in DOMAIN s :
                    s[i] \notin Whitespace \/ i = 1 \/ s[i - 1] \notin Whitespace})
    IN  [k \in DOMAIN kept |-> IF s[kept[k]] \in Whitespace THEN " " ELSE s[kept[k]]]

cleanText(text) ==
    LET collapsed == CollapseWhitespace(text)
        replaced  == [i \in DOMAIN collapsed |->
                        IF IsWordChar(collapsed[i]) \/ collapsed[i] \in Whitespace
                           \/ collapsed[i] \in {"@", ".", "-"}
                        THEN collapsed[i] ELSE " "]
    IN  trim(replaced)

\* String.prototype.split('\n'): the pieces between the line breaks, empty
\* pieces included
SplitLines(s) ==
    LET breaks == Ascending({i \in DOMAIN s : s[i] = "\n"})
        n      == Len(breaks)
    IN  [k \in 1 .. n + 1 |->
            LET from == IF k = 1 THEN 1 ELSE breaks[k - 1] + 1
                to   == IF k = n + 1 THEN Len(s) ELSE breaks[k] - 1
            IN  IF from > to THEN <<>> ELSE SubSeq(s, from, to)]

\* a string or null: the sequence of the string alone, or the empty sequence
NoName == <<>>

\* firstLine.length < 50
NameLimit == 50

\* process-resume's extractName: the first line that is not blank, trimmed,
\* if it is shorter than 50 characters and has no digit; null otherwise
extractName(text) ==
    LET NotBlank(line) == Len(trim(line)) > 0
        lines == SelectSeq(SplitLines(text), NotBlank)
    IN  IF Len(lines) > 0
        THEN LET firstLine == trim(lines[1])
             IN  IF Len(firstLine) < NameLimit /\ Range(firstLine) \cap Digits = {}
                 THEN <<firstLine>>
                 ELSE NoName
        ELSE NoName

(***************************************************************************)
(* Numbers.  A natural number of any size is a sequence of limbs in base   *)
(* 10000, least significant first, without leading zero limbs (zero is the *)
(* empty sequence), so that sums of squares and their products never leave *)
(* the range of the checker's integers.                                    *)
(***************************************************************************)
Limb == 10000

RECURSIVE BigOf(_)
BigOf(n) == IF n = 0 THEN <<>> ELSE <<n % Limb>> \o BigOf(n \div Limb)

RECURSIVE BigAddC(_, _, _)
BigAddC(a, b, carry) ==
    IF a = <<>> /\ b = <<>> THEN BigOf(carry)
    ELSE LET x == IF a = <<>> THEN 0 ELSE Head(a)
             y == IF b = <<>> THEN 0 ELSE Head(b)
             t == x + y + carry
         IN  <<t % Limb>> \o BigAddC(IF a = <<>> THEN a ELSE Tail(a),
                                      IF b = <<>> THEN b ELSE Tail(b),
                                      t \div Limb)

RECURSIVE BigNorm(_)
BigNorm(a) ==
    IF a # <<>> /\ a[Len(a)] = 0 THEN BigNorm(SubSeq(a, 1, Len(a) - 1)) ELSE a

BigAdd(a, b) == BigNorm(BigAddC(a, b, 0))

\* a times one limb d
RECURSIVE BigMulLimb(_, _, _)
BigMulLimb(a, d, carry) ==
    IF a = <<>> THEN BigOf(carry)
    ELSE LET t == Head(a) * d + carry
         IN  <<t % Limb>> \o BigMulLimb(Tail(a), d, t \div Limb)

RECURSIVE BigMul(_, _)
BigMul(a, b) ==
    IF b = <<>> \/ a = <<>> THEN <<>>
    ELSE BigAdd(BigNorm(BigMulLimb(a, Head(b), 0)),
                LET rest == BigMul(a, Tail(b))
                IN  IF rest = <<>> THEN <<>> ELSE <<0>> \o rest)

\* a <= b
RECURSIVE BigLeqFrom(_, _, _)
BigLeqFrom(a, b, i) ==
    IF i = 0 THEN TRUE
    ELSE IF a[i] # b[i] THEN a[i] < b[i]
         ELSE BigLeqFrom(a, b, i - 1)

BigLeq(a, b) ==
    IF Len(a) # Len(b) THEN Len(a) < Len(b) ELSE BigLeqFrom(a, b, Len(a))

Abs(n) == IF n < 0 THEN -n ELSE n

\* a - b, for a >= b
RECURSIVE BigSubB(_, _, _)
BigSubB(a, b, borrow) ==
    IF a = <<>> THEN <<>>
    ELSE LET y == (IF b = <<>> THEN 0 ELSE Head(b)) + borrow
             x == Head(a)
         IN  IF x >= y
             THEN <<x - y>> \o BigSubB(Tail(a), IF b = <<>> THEN b ELSE Tail(b), 0)
             ELSE <<x + Limb - y>>
                  \o BigSubB(Tail(a), IF b = <<>> THEN b ELSE Tail(b), 1)

BigSub(a, b) == BigNorm(BigSubB(a, b, 0))

RECURSIVE Gcd(_, _)
Gcd(a, b) == IF b = 0 THEN a ELSE Gcd(b, a % b)

RECURSIVE LcmUpTo(_)
LcmUpTo(n) == IF n <= 1 THEN 1 ELSE LET l == LcmUpTo(n - 1) IN (l \div Gcd(l, n)) * n

\* A term frequency count / tokenCount is held exactly, in units of 1 / TfScale.
TfScale == LcmUpTo(MaxTokens)

\* Math.log of the quotient num / den, in units of 1 / 1000: ln 1 .. ln 10 to
\* three decimals.  Math.log(1) is exactly 0 and the table is increasing, so
\* the sign of every logarithm is the true one.
LnTable == <<0, 693, 1099, 1386, 1609, 1792, 1946, 2079, 2197, 2303>>

\* the quotient inverted: Math.log(den / num)
MathLogInverted(num, den) == IF num = den THEN 0 ELSE LnTable[den] - LnTable[num]

MathLog(num, den) == IF num = den THEN 0 ELSE LnTable[num] - LnTable[den]

\* tokens.filter(t => t === token).length
Count(token, tokens) == Cardinality({i \in DOMAIN tokens : tokens[i] = token})

(***************************************************************************)
(* calculateTfIdf: a Map token -> weight is a function on the tokens of    *)
(* the document; a weight is tf * idf, in units of 1 / (1000 * TfScale).   *)
(***************************************************************************)
TermFrequency(tokens) ==
    LET tokenCount == Len(tokens)
    IN  [t \in Range(tokens) |-> Count(t, tokens) * (TfScale \div tokenCount)]

\* the add-one smoothing left out: Math.log(docCount / docsWithToken)
InverseDocumentFrequencyUnsmoothed(tokens, allTokens) ==
    LET docCount == Len(allTokens)
    IN  [t \in Range(tokens) |->
            LET docsWithToken ==
                    Cardinality({d \in DOMAIN allTokens : t \in Range(allTokens[d])})
            IN  MathLog(docCount, docsWithToken)]

\* the occurrences of the token counted instead of the documents that have it
DocumentFrequencyOfOccurrences(token, allTokens) ==
    Cardinality({<<d, i>> \in (DOMAIN allTokens) \X (1 .. MaxTokens) :
                    i \in DOMAIN allTokens[d] /\ allTokens[d][i] = token})

\* allTokens.filter(doc => doc.includes(token)).length
DocumentFrequency(token, allTokens) ==
    Cardinality({d \in DOMAIN allTokens : token \in Range(allTokens[d])})

InverseDocumentFrequency(tokens, allTokens) ==
    LET docCount == Len(allTokens)
    IN  [t \in Range(tokens) |->
            LET docsWithToken == DocumentFrequency(t, allTokens)
            IN  MathLog(docCount, docsWithToken + 1)]

\* the idf left out of the product: tfidf.set(token, tfValue)
calculateTfIdfWithoutIdf(tokens, allTokens) ==
    LET tf == TermFrequency(tokens)
    IN  [t \in DOMAIN tf |-> tf[t] * 1000]

calculateTfIdf(tokens, allTokens) ==
    LET tf  == TermFrequency(tokens)
        idf == InverseDocumentFrequency(tokens, allTokens)
    IN  [t \in DOMAIN tf |-> tf[t] * idf[t]]

(***************************************************************************)
(* cosineSimilarity.  The sums are exact; the returned number              *)
(* dot / (sqrt(mag1) * sqrt(mag2)) is the record of its sign, |dot|, mag1  *)
(* and mag2.                                                               *)
(***************************************************************************)
Get(vec, key) == IF key \in DOMAIN vec THEN vec[key] ELSE 0

\* the sum over keys of |term(key)|, for the keys whose term has sign sgn
RECURSIVE SumAbs(_, _, _, _)
SumAbs(keys, vecA, vecB, sgn) ==
    IF keys = {} THEN <<>>
    ELSE LET key  == CHOOSE k \in keys : TRUE
             a    == Get(vecA, key)
             b    == Get(vecB, key)
             same == (a >= 0 /\ b >= 0) \/ (a <= 0 /\ b <= 0)
             term == IF (sgn = 1) = same
                     THEN BigMul(BigOf(Abs(a)), BigOf(Abs(b)))
                     ELSE <<>>
         IN  BigAdd(term, SumAbs(keys \ {key}, vecA, vecB, sgn))

\* 1 returned for a zero magnitude: if (mag1 === 0 || mag2 === 0) return 1
ZeroSimilarityOne == [sign |-> 1, dot |-> <<1>>, mag1 |-> <<1>>, mag2 |-> <<1>>]

\* line 64: the number 0
ZeroSimilarity == [sign |-> 0, dot |-> <<>>, mag1 |-> <<1>>, mag2 |-> <<1>>]

\* mag2 accumulated from v1: mag2 += v1 * v1
cosineSimilarityMagTypo(vec1, vec2) ==
    LET allKeys == DOMAIN vec1 \cup DOMAIN vec2
        dotPos  == SumAbs(allKeys, vec1, vec2, 1)
        dotNeg  == SumAbs(allKeys, vec1, vec2, -1)
        mag1    == SumAbs(allKeys, vec1, vec1, 1)
        mag2    == SumAbs(allKeys, vec1, vec1, 1)
    IN  IF mag1 = <<>> \/ mag2 = <<>> THEN ZeroSimilarity
        ELSE IF dotPos = dotNeg THEN [sign |-> 0, dot |-> <<>>, mag1 |-> mag1, mag2 |-> mag2]
        ELSE IF BigLeq(dotNeg, dotPos)
             THEN [sign |-> 1, dot |-> BigSub(dotPos, dotNeg), mag1 |-> mag1, mag2 |-> mag2]
             ELSE [sign |-> -1, dot |-> BigSub(dotNeg, dotPos), mag1 |-> mag1, mag2 |-> mag2]

cosineSimilarity(vec1, vec2) ==
    LET allKeys == DOMAIN vec1 \cup DOMAIN vec2
        dotPos  == SumAbs(allKeys, vec1, vec2, 1)
        dotNeg  == SumAbs(allKeys, vec1, vec2, -1)
        mag1    == SumAbs(allKeys, vec1, vec1, 1)
        mag2    == SumAbs(allKeys, vec2, vec2, 1)
    IN  IF mag1 = <<>> \/ mag2 = <<>> THEN ZeroSimilarity
        ELSE IF dotPos = dotNeg THEN [sign |-> 0, dot |-> <<>>, mag1 |-> mag1, mag2 |-> mag2]
        ELSE IF BigLeq(dotNeg, dotPos)
             THEN [sign |-> 1, dot |-> BigSub(dotPos, dotNeg), mag1 |-> mag1, mag2 |-> mag2]
             ELSE [sign |-> -1, dot |-> BigSub(dotNeg, dotPos), mag1 |-> mag1, mag2 |-> mag2]

\* 0 <= x <= 1 and -1 <= x <= 1 for a number x returned by cosineSimilarity
AtMostOne(x) == BigLeq(BigMul(x.dot, x.dot), BigMul(x.mag1, x.mag2))
InUnitInterval(x) == x.sign >= 0 /\ AtMostOne(x)

(***************************************************************************)
(* Math.round(similarity * 100 * 100) / 100, as the integer number of      *)
(* hundredths: Math.round(y) is floor(y + 1/2).                            *)
(***************************************************************************)
\* With lhs = 4 * 10^8 * dot^2 and rhs = mag1 * mag2:
\* 2k - 1 <= 20000 |x|, that is k <= 10000 |x| + 1/2
HalfBelow(lhs, rhs, k) ==
    k = 0 \/ BigLeq(BigMul(BigMul(BigOf(2 * k - 1), BigOf(2 * k - 1)), rhs), lhs)

\* 20000 |x| <= 2j + 1, that is 10000 |x| - 1/2 <= j
HalfAbove(lhs, rhs, j) ==
    BigLeq(lhs, BigMul(BigMul(BigOf(2 * j + 1), BigOf(2 * j + 1)), rhs))

RECURSIVE FirstNotBelow(_, _, _)
FirstNotBelow(lhs, rhs, k) ==
    IF HalfBelow(lhs, rhs, k) THEN FirstNotBelow(lhs, rhs, 2 * k) ELSE k

\* the largest k in lo .. hi - 1 with HalfBelow(lhs, rhs, k)
RECURSIVE LastBelow(_, _, _, _)
LastBelow(lhs, rhs, lo, hi) ==
    IF hi - lo <= 1 THEN lo
    ELSE LET mid == (lo + hi) \div 2
         IN  IF HalfBelow(lhs, rhs, mid)
             THEN LastBelow(lhs, rhs, mid, hi)
             ELSE LastBelow(lhs, rhs, lo, mid)

RECURSIVE FirstAbove(_, _, _)
FirstAbove(lhs, rhs, j) ==
    IF HalfAbove(lhs, rhs, j) THEN j ELSE FirstAbove(lhs, rhs, 2 * j + 1)

\* the smallest j in lo + 1 .. hi with HalfAbove(lhs, rhs, j)
RECURSIVE LeastAbove(_, _, _, _)
LeastAbove(lhs, rhs, lo, hi) ==
    IF hi - lo <= 1 THEN hi
    ELSE LET mid == (lo + hi) \div 2
         IN  IF HalfAbove(lhs, rhs, mid)
             THEN LeastAbove(lhs, rhs, lo, mid)
             ELSE LeastAbove(lhs, rhs, mid, hi)

RoundHundredths(x) ==
    LET lhs == BigMul(BigOf(400000000), BigMul(x.dot, x.dot))
        rhs == BigMul(x.mag1, x.mag2)
    IN  IF x.sign = 0 THEN 0
        ELSE IF x.sign > 0
             THEN LastBelow(lhs, rhs, 0, FirstNotBelow(lhs, rhs, 1))
        ELSE IF HalfAbove(lhs, rhs, 0) THEN 0
        ELSE -LeastAbove(lhs, rhs, 0, FirstAbove(lhs, rhs, 1))

\* the division by 100 left out: Math.round(similarity * 100 * 100)
similarityPercentUndivided(x) == 100 * RoundHundredths(x)

\* the score, in hundredths of a percent
similarityPercent(x) == RoundHundredths(x)

(***************************************************************************)
(* Array.prototype.sort with a comparator b.key - a.key: stable, by        *)
(* descending key.  The elements are records with a field key.             *)
(***************************************************************************)
RECURSIVE InsertDesc(_, _)
InsertDesc(sorted, x) ==
    IF sorted = <<>> THEN <<x>>
    ELSE IF Head(sorted).key >= x.key
         THEN <<Head(sorted)>> \o InsertDesc(Tail(sorted), x)
         ELSE <<x>> \o sorted

RECURSIVE SortDesc(_)
SortDesc(seq) ==
    IF seq = <<>> THEN <<>>
    ELSE InsertDesc(SortDesc(SubSeq(seq, 1, Len(seq) - 1)), seq[Len(seq)])

\* [...new Set(seq)]: the distinct elements in order of first occurrence
RECURSIVE Distinct(_)
Distinct(seq) ==
    IF seq = <<>> THEN <<>>
    ELSE LET front == Distinct(SubSeq(seq, 1, Len(seq) - 1))
             x     == seq[Len(seq)]
         IN  IF x \in Range(front) THEN front ELSE Append(front, x)

Min(a, b) == IF a <= b THEN a ELSE b

\* the Set of line 73 left out: matched = jobTokens.filter(...)
findMatchedKeywordsWithDuplicates(jobTokens, resumeTokens, topN) ==
    LET InResume(token) == token \in Range(resumeTokens)
        matched   == SelectSeq(jobTokens, InResume)
        frequency == [token \in Range(matched) |->
                         Count(token, jobTokens) + Count(token, resumeTokens)]
        keyed     == [i \in DOMAIN matched |->
                         [key |-> frequency[matched[i]], item |-> matched[i]]]
        sorted    == SortDesc(keyed)
    IN  [i \in 1 .. Min(topN, Len(sorted)) |-> sorted[i].item]

findMatchedKeywords(jobTokens, resumeTokens, topN) ==
    LET InResume(token) == token \in Range(resumeTokens)
        matched   == SelectSeq(Distinct(jobTokens), InResume)
        frequency == [token \in Range(matched) |->
                         Count(token, jobTokens) + Count(token, resumeTokens)]
        keyed     == [i \in DOMAIN matched |->
                         [key |-> frequency[matched[i]], item |-> matched[i]]]
        sorted    == SortDesc(keyed)
    IN  [i \in 1 .. Min(topN, Len(sorted)) |-> sorted[i].item]

\* the default value of findMatchedKeywords' parameter topN
DefaultTopN == 10

(***************************************************************************)
(* process-job-description: extractRequirements.  Each pattern is          *)
(* header s? : ([\s\S]*?) (?= \n\n | word | word | $ ), case-insensitive:  *)
(* the leftmost header, then the shortest capture that ends before a       *)
(* terminator or at the end of the text.                                   *)
(***************************************************************************)
\* the literal lit (lower case) matches text at position i, ignoring case
MatchesAt(text, i, lit) ==
    /\ i + Len(lit) - 1 <= Len(text)
    /\ \A k \in DOMAIN lit : LowerChar(text[i + k - 1]) = lit[k]

\* the position after "header s? :" matched at i, or 0 if it does not match
HeaderEnd(text, i, header) ==
    LET n == i + Len(header)
    IN  IF ~MatchesAt(text, i, header) THEN 0
        ELSE IF n <= Len(text) /\ text[n] = ":" THEN n + 1
        ELSE IF n + 1 <= Len(text) /\ LowerChar(text[n]) = "s" /\ text[n + 1] = ":"
             THEN n + 2
        ELSE 0

Patterns ==
    << [header |-> <<"r","e","q","u","i","r","e","m","e","n","t">>,
        stops  |-> {<<"\n","\n">>, <<"r","e","s","p","o","n","s","i","b","i","l","i","t","i","e","s">>, <<"q","u","a","l","i","f","i","c","a","t","i","o","n","s">>}],
       [header |-> <<"q","u","a","l","i","f","i","c","a","t","i","o","n">>,
        stops  |-> {<<"\n","\n">>, <<"r","e","s","p","o","n","s","i","b","i","l","i","t","i","e","s">>, <<"r","e","q","u","i","r","e","m","e","n","t","s">>}],
       [header |-> <<"r","e","q","u","i","r","e","d"," ","s","k","i","l","l">>,
        stops  |-> {<<"\n","\n">>, <<"r","e","s","p","o","n","s","i","b","i","l","i","t","i","e","s">>, <<"q","u","a","l","i","f","i","c","a","t","i","o","n","s">>}] >>

\* text.match(pattern): << found, match[1] >>
MatchPattern(text, pattern) ==
    LET starts == {i \in DOMAIN text : HeaderEnd(text, i, pattern.header) # 0}
    IN  IF starts = {} THEN [found |-> FALSE, capture |-> <<>>]
        ELSE LET i     == CHOOSE a \in starts : \A b \in starts : a <= b
                 from  == HeaderEnd(text, i, pattern.header)
                 ends  == {t \in from .. Len(text) :
                              \E lit \in pattern.stops : MatchesAt(text, t, lit)}
                              \cup {Len(text) + 1}
                 to    == CHOOSE a \in ends : \A b \in ends : a <= b
             IN  [found |-> TRUE, capture |-> SubSeq(text, from, to - 1)]

\* requirementSections.join('\n\n')
RECURSIVE Join(_)
Join(sections) ==
    IF sections = <<>> THEN <<>>
    ELSE IF Len(sections) = 1 THEN sections[1]
    ELSE sections[1] \o <<"\n","\n">> \o Join(Tail(sections))

RECURSIVE RequirementSections(_, _)
RequirementSections(text, patterns) ==
    IF patterns = <<>> THEN <<>>
    ELSE LET match == MatchPattern(text, Head(patterns))
             rest  == RequirementSections(text, Tail(patterns))
         IN  IF match.found /\ match.capture # <<>>
             THEN <<trim(match.capture)>> \o rest
             ELSE rest

\* text.substring(0, 500)
ExcerptLength == 500

extractRequirements(text) ==
    LET joined == Join(RequirementSections(text, Patterns))
    IN  IF joined # <<>> THEN joined
        ELSE SubSeq(text, 1, Min(ExcerptLength, Len(text)))

(***************************************************************************)
(* State.  The three tables are sequences of rows in insertion order; a    *)
(* row's id (a uuid in the program) is its position in its table.          *)
(***************************************************************************)
(***************************************************************************)
(* process-resume: extractSkills.  A label is a string of the source: the  *)
(* label written 'c\\+\\+' is the five characters c \ + \ +.  The regular  *)
(* expression built from a label matches the label with its backslashes    *)
(* taken as escapes, between two word boundaries, ignoring case.           *)
(***************************************************************************)
commonSkills ==
    <<
       <<"j","a","v","a","s","c","r","i","p","t">>,
       <<"t","y","p","e","s","c","r","i","p","t">>,
       <<"p","y","t","h","o","n">>,
       <<"j","a","v","a">>,
       <<"c","\\","+","\\","+">>,
       <<"c","#">>,
       <<"r","u","b","y">>,
       <<"p","h","p">>,
       <<"s","w","i","f","t">>,
       <<"k","o","t","l","i","n">>,

       <<"r","e","a","c","t">>,
       <<"a","n","g","u","l","a","r">>,
       <<"v","u","e">>,
       <<"n","o","d","e">>,
       <<"e","x","p","r","e","s","s">>,
       <<"d","j","a","n","g","o">>,
       <<"f","l","a","s","k">>,
       <<"s","p","r","i","n","g">>,
       <<"l","a","r","a","v","e","l">>,

       <<"s","q","l">>,
       <<"m","o","n","g","o","d","b">>,
       <<"p","o","s","t","g","r","e","s","q","l">>,
       <<"m","y","s","q","l">>,
       <<"r","e","d","i","s">>,
       <<"e","l","a","s","t","i","c","s","e","a","r","c","h">>,

       <<"a","w","s">>,
       <<"a","z","u","r","e">>,
       <<"g","c","p">>,
       <<"d","o","c","k","e","r">>,
       <<"k","u","b","e","r","n","e","t","e","s">>,
       <<"j","e","n","k","i","n","s">>,
       <<"g","i","t">>,

       <<"m","a","c","h","i","n","e"," ","l","e","a","r","n","i","n","g">>,
       <<"d","e","e","p"," ","l","e","a","r","n","i","n","g">>,
       <<"n","l","p">>,
       <<"c","o","m","p","u","t","e","r"," ","v","i","s","i","o","n">>,
       <<"d","a","t","a"," ","s","c","i","e","n","c","e">>,

       <<"h","t","m","l">>,
       <<"c","s","s">>,
       <<"s","a","s","s">>,
       <<"t","a","i","l","w","i","n","d">>,
       <<"b","o","o","t","s","t","r","a","p">>,

       <<"r","e","s","t"," ","a","p","i">>,
       <<"g","r","a","p","h","q","l">>,
       <<"m","i","c","r","o","s","e","r","v","i","c","e","s">>,
       <<"a","g","i","l","e">>,
       <<"s","c","r","u","m">>,

       <<"t","e","n","s","o","r","f","l","o","w">>,
       <<"p","y","t","o","r","c","h">>,
       <<"s","c","i","k","i","t","-","l","e","a","r","n">>,
       <<"p","a","n","d","a","s">>,
       <<"n","u","m","p","y">>,

       <<"c","o","m","m","u","n","i","c","a","t","i","o","n">>,
       <<"l","e","a","d","e","r","s","h","i","p">>,
       <<"t","e","a","m","w","o","r","k">>,
       <<"p","r","o","b","l","e","m"," ","s","o","l","v","i","n","g">>,
       <<"p","r","o","j","e","c","t"," ","m","a","n","a","g","e","m","e","n","t">>
    >>

\* the characters the pattern of a label matches: \+ matches a plus sign
PatternLiteral(skill) == SelectSeq(skill, LAMBDA c : c # "\\")

\* \b before position p of text: one of the characters at p - 1 and p is a
\* word character and the other is not (or is outside the text)
WordBoundary(text, p) ==
    LET Word(q) == q \in DOMAIN text /\ IsWordChar(text[q])
    IN  Word(p - 1) # Word(p)

\* new RegExp('\\b' + skill + '\\b', 'i').test(lowerText)
SkillFound(lowerText, skill) ==
    LET lit == PatternLiteral(skill)
    IN  \E i \in DOMAIN lowerText :
            /\ MatchesAt(lowerText, i, lit)
            /\ WordBoundary(lowerText, i)
            /\ WordBoundary(lowerText, i + Len(lit))

\* skill.replace(/\\\\[+]/g, '+'): the pattern matches two backslashes and a
\* plus sign
RECURSIVE ReplaceEscapedPlus(_)
ReplaceEscapedPlus(skill) ==
    IF skill = <<>> THEN <<>>
    ELSE IF Len(skill) >= 3 /\ skill[1] = "\\" /\ skill[2] = "\\" /\ skill[3] = "+"
         THEN <<"+">> \o ReplaceEscapedPlus(SubSeq(skill, 4, Len(skill)))
         ELSE <<skill[1]>> \o ReplaceEscapedPlus(Tail(skill))

extractSkills(text) ==
    LET lowerText   == toLowerCase(text)
        Found(skill) == SkillFound(lowerText, skill)
        found       == SelectSeq(commonSkills, Found)
        foundSkills == [i \in DOMAIN found |-> ReplaceEscapedPlus(found[i])]
    IN  Distinct(foundSkills)

VARIABLES
    job_postings,        \* rows [id, title, description, requirements]
    resumes,             \* rows [id, filename, candidate_name, extracted_text]
    similarity_results,  \* rows [job_posting_id, resume_id, similarity_score,
                         \*       matched_keywords, ranking]
    cs,                  \* the calculate-similarity invocation: where it stands
                         \* (pc), its request, what it has read and computed,
                         \* and its response once it has returned
    db_log,              \* the statements the invocation has executed on
                         \* similarity_results, in order
    upload,              \* the FileUpload component: its status, the submitted
                         \* form and where handleSubmit stands
    call,                \* a call of a pure function: its arguments, its result
    other,               \* a second calculate-similarity invocation, running
                         \* while the first one does
    dashboard,           \* the Dashboard component: activeJobId, showResults
    display              \* the ResultsDisplay component: whether it is mounted,
                         \* its loading flag and the results it shows

vars == <<job_postings, resumes, similarity_results, cs, db_log, upload, call,
          other, dashboard, display>>

Has(record, field) == field \in DOMAIN record

\* JSON.stringify({ success: false, error: error.message }), status 400
Failure(message) == [status |-> 400, success |-> FALSE, error |-> message]

(***************************************************************************)
(* process-job-description and process-resume: one database call each, so  *)
(* each invocation is one step.  A handler is an operator from the request *)
(* body, the table and the outcome of the insert to the response and the   *)
(* new table.                                                              *)
(***************************************************************************)
processJobDescription(jobData, table, insertOk) ==
    IF ~(Has(jobData, "description") /\ jobData.description # <<>>
         /\ Has(jobData, "title") /\ jobData.title # <<>>)
    THEN [response |-> Failure("Missing required fields: title and description"),
          table |-> table]
    ELSE LET requirements == extractRequirements(jobData.description)
             jobPosting   == [id |-> Len(table) + 1,
                              title |-> jobData.title,
                              description |-> jobData.description,
                              requirements |-> requirements]
         IN  IF ~insertOk
             THEN [response |-> Failure("insert failed"), table |-> table]
             ELSE [response |-> [status |-> 200, success |-> TRUE,
                                 jobPosting |-> jobPosting],
                   table |-> Append(table, jobPosting)]

processResume(resumeData, table, insertOk) ==
    IF ~(Has(resumeData, "content") /\ resumeData.content # <<>>
         /\ Has(resumeData, "filename") /\ resumeData.filename # <<>>)
    THEN [response |-> Failure("Missing required fields: content and filename"),
          table |-> table]
    ELSE LET cleanedText == cleanText(resumeData.content)
             resume      == [id |-> Len(table) + 1,
                             filename |-> resumeData.filename,
                             candidate_name |-> extractName(cleanedText),
                             extracted_text |-> cleanedText]
         IN  IF ~insertOk
             THEN [response |-> Failure("insert failed"), table |-> table]
             ELSE [response |-> [status |-> 200, success |-> TRUE,
                                 resume |-> resume],
                   table |-> Append(table, resume)]

(***************************************************************************)
(* calculate-similarity, between its awaits.                               *)
(***************************************************************************)
Idle == [pc |-> "idle"]

\* line 106
MissingRequiredFields(data) ==
    \/ ~Has(data, "jobPostingId")
    \/ ~Has(data, "resumeIds")
    \/ Len(data.resumeIds) = 0

\* the check of line 123 left out
NoResumesFoundUnchecked(found) == FALSE

\* line 123: no row came back
NoResumesFound(found) == Len(found) = 0

\* supabase.from('job_postings').select('*').eq('id', id).single()
SelectJobPosting(table, id) ==
    SelectSeq(table, LAMBDA row : row.id = id)

\* the filter .in('id', ids) left out
SelectResumesUnfiltered(table, ids) == table

\* supabase.from('resumes').select('*').in('id', ids): the rows whose id is
\* among ids, each once, in table order
SelectResumes(table, ids) ==
    SelectSeq(table, LAMBDA row : row.id \in Range(ids))

\* the orders in which a select without ORDER BY may return n rows
Orders(n) == {f \in [1 .. n -> 1 .. n] : \A i, j \in 1 .. n : i # j => f[i] # f[j]}

\* line 127: the text of the query document
QueryText(jobPosting) ==
    jobPosting.description \o <<" ">> \o jobPosting.requirements

\* lines 127-135
JobTokens(jobPosting) == tokenize(QueryText(jobPosting))

\* allTokens without the token list of the last resume
AllTokensWithoutLast(jobPosting, fetched) ==
    <<JobTokens(jobPosting)>>
    \o [i \in 1 .. Len(fetched) - 1 |-> tokenize(fetched[i].extracted_text)]

\* allTokens started empty: const allTokens = []
AllTokensWithoutQuery(jobPosting, fetched) ==
    [i \in DOMAIN fetched |-> tokenize(fetched[i].extracted_text)]

AllTokens(jobPosting, fetched) ==
    <<JobTokens(jobPosting)>>
    \o [i \in DOMAIN fetched |-> tokenize(fetched[i].extracted_text)]

\* resumeTokensMap: Map.set keeps the last value set for a key
ResumeTokensMap(fetched) ==
    [id \in {fetched[i].id : i \in DOMAIN fetched} |->
        LET last == CHOOSE i \in DOMAIN fetched :
                        /\ fetched[i].id = id
                        /\ \A j \in DOMAIN fetched : fetched[j].id = id => j <= i
        IN  tokenize(fetched[last].extracted_text)]

\* lines 137-152, with resumes that have no token skipped
ScoreResumesSkippingEmpty(jobPosting, fetched) ==
    LET jobTokens == JobTokens(jobPosting)
        allTokens == AllTokens(jobPosting, fetched)
        jobTfidf  == calculateTfIdf(jobTokens, allTokens)
        scored    == SelectSeq(fetched, LAMBDA row : tokenize(row.extracted_text) # <<>>)
    IN  [i \in DOMAIN scored |->
            LET resumeTokens == tokenize(scored[i].extracted_text)
                resumeTfidf  == calculateTfIdf(resumeTokens, allTokens)
                similarity   == cosineSimilarity(jobTfidf, resumeTfidf)
            IN  [resumeId |-> scored[i].id,
                 similarity |-> similarityPercent(similarity),
                 matchedKeywords |->
                     findMatchedKeywords(jobTokens, resumeTokens, DefaultTopN)]]

\* lines 137-152: one result per fetched resume, in fetch order
ScoreResumes(jobPosting, fetched) ==
    LET jobTokens == JobTokens(jobPosting)
        allTokens == AllTokens(jobPosting, fetched)
        tokensOf  == ResumeTokensMap(fetched)
        jobTfidf  == calculateTfIdf(jobTokens, allTokens)
    IN  [i \in DOMAIN fetched |->
            LET resumeTokens == tokensOf[fetched[i].id]
                resumeTfidf  == calculateTfIdf(resumeTokens, allTokens)
                similarity   == cosineSimilarity(jobTfidf, resumeTfidf)
            IN  [resumeId |-> fetched[i].id,
                 similarity |-> similarityPercent(similarity),
                 matchedKeywords |->
                     findMatchedKeywords(jobTokens, resumeTokens, DefaultTopN)]]

\* the sort of line 154 left out
SortResultsSkipped(results) == results

\* line 154: results.sort((a, b) => b.similarity - a.similarity)
SortResults(results) ==
    LET keyed  == [i \in DOMAIN results |->
                      [key |-> results[i].similarity, item |-> results[i]]]
        sorted == SortDesc(keyed)
    IN  [i \in DOMAIN sorted |-> sorted[i].item]

\* lines 158-164
InsertData(jobPostingId, results) ==
    [index \in DOMAIN results |->
        [job_posting_id |-> jobPostingId,
         resume_id |-> results[index].resumeId,
         similarity_score |-> results[index].similarity,
         matched_keywords |-> results[index].matchedKeywords,
         ranking |-> index]]  \* index + 1, for positions counted from 0

\* the rows of similarity_results for a job posting
RowsOfJob(jobPostingId) ==
    SelectSeq(similarity_results, LAMBDA row : row.job_posting_id = jobPostingId)

\* the CHECK constraint of similarity_results.similarity_score, in hundredths
ScoreAllowed(row) == row.similarity_score >= 0 /\ row.similarity_score <= 10000

(***************************************************************************)
(* The inputs of the model: job descriptions, file contents and requests.  *)
(***************************************************************************)
Title == <<"T">>
FileName == <<"f">>

\* "aaa bbb": stored with requirements "aaa bbb" (no header, whole text)
DescTwoWords == <<"a","a","a"," ","b","b","b">>
\* "ab": not empty, but no word of three characters
DescNoToken == <<"a","b">>
\* "requirements: ccc": stored with requirements "ccc"
DescHeader == <<"r","e","q","u","i","r","e","m","e","n","t","s",":"," ","c","c","c">>

Descriptions == {DescTwoWords, DescNoToken, DescHeader}

\* "aaa bbb aaa bbb": the text calculate-similarity tokenizes for DescTwoWords
FileSameAsQuery == <<"a","a","a"," ","b","b","b"," ","a","a","a"," ","b","b","b">>
\* a space and a line break: not empty, cleaned to the empty string
FileBlank == <<" ","\n">>
\* "ab ab": the text calculate-similarity tokenizes for DescNoToken
FileNoToken == <<"a","b"," ","a","b">>
\* "AAA ccc ccc"
FileUpper == <<"A","A","A"," ","c","c","c"," ","c","c","c">>

Contents == {FileSameAsQuery, FileBlank, FileNoToken, FileUpper}

\* resumeIds: the ids in ascending or in descending order, none twice
IdLists ==
    {ids \in UNION {[1 .. n -> 1 .. MaxResumes] : n \in 0 .. MaxResumes} :
        \/ \A i, j \in DOMAIN ids : i < j => ids[i] < ids[j]
        \/ \A i, j \in DOMAIN ids : i < j => ids[i] > ids[j]}

\* requests to calculate-similarity: a preflight, a request without an
\* Authorization header, and authorized requests whose body has both fields
\* or lacks one
Requests ==
    {[method |-> "OPTIONS"]}
    \cup {[method |-> "POST", authorization |-> FALSE, data |-> [resumeIds |-> <<1>>]]}
    \cup {[method |-> "POST", authorization |-> TRUE, data |-> data] :
            data \in {[jobPostingId |-> 1, resumeIds |-> ids] : ids \in IdLists}
                     \cup {[resumeIds |-> <<1>>]}
                     \cup {[jobPostingId |-> 1]}}

(***************************************************************************)
(* The tables a calculate-similarity invocation may find.  Rows are only   *)
(* ever appended to job_postings and resumes, and the invocation reads     *)
(* each of the two once, so what it reads is a table that                  *)
(* process-job-description and process-resume have filled before.          *)
(***************************************************************************)
\* job_postings: empty, or the row of one process-job-description invocation
JobTables(descriptions) ==
    {<<>>} \cup {processJobDescription([title |-> Title, description |-> d],
                                       <<>>, TRUE).table : d \in descriptions}

\* resumes after process-resume invocations for the files of a list, in order
RECURSIVE ResumesAfter(_)
ResumesAfter(files) ==
    IF files = <<>> THEN <<>>
    ELSE processResume([filename |-> FileName, content |-> files[Len(files)]],
                       ResumesAfter(SubSeq(files, 1, Len(files) - 1)), TRUE).table

ResumeTables(contents) ==
    {ResumesAfter(files) :
        files \in UNION {[1 .. n -> contents] : n \in 0 .. MaxResumes}}

\* similarity_results: empty, or the rows an earlier invocation for the job
\* posting and all the resumes has left
StoredResults(jobs, table) ==
    IF jobs = <<>> \/ table = <<>> THEN {<<>>}
    ELSE {<<>>, InsertData(jobs[1].id, SortResults(ScoreResumes(jobs[1], table)))}

NoUpload == [stage |-> "idle", progress |-> 0, pc |-> "idle", submits |-> 0,
             running |-> 0, completed |-> <<>>]
NoCall == [pc |-> "none"]

\* Dashboard.tsx lines 9-10: useState<string | null>(null), useState(false);
\* job posting ids are positive, so 0 stands for null
Null == 0
NoDashboard == [activeJobId |-> Null, showResults |-> FALSE]

\* ResultsDisplay is not mounted until the Dashboard shows the results
NoDisplay == [pc |-> "unmounted"]

(***************************************************************************)
(* Actions of a calculate-similarity invocation.                           *)
(***************************************************************************)
InitOver(descriptions, contents) ==
    /\ job_postings \in JobTables(descriptions)
    /\ resumes \in ResumeTables(contents)
    /\ similarity_results \in StoredResults(job_postings, resumes)
    /\ cs = Idle
    /\ db_log = <<>>
    /\ upload = NoUpload
    /\ other = Idle
    /\ dashboard = NoDashboard
    /\ display = NoDisplay
    /\ call = NoCall

Init == InitOver(Descriptions, Contents)

\* lines 89-108: the request arrives; preflight, authorization, validation
\* `before` is not a value of the handler: it keeps similarity_results as the
\* invocation found it, for the properties that compare with it
Accepted(req) ==
    IF req.method = "OPTIONS"
    THEN [pc |-> "done", request |-> req, before |-> similarity_results,
          response |-> [status |-> 200]]
    ELSE IF ~req.authorization
    THEN [pc |-> "done", request |-> req, before |-> similarity_results,
          response |-> Failure("Missing authorization header")]
    ELSE IF MissingRequiredFields(req.data)
    THEN [pc |-> "done", request |-> req, before |-> similarity_results,
          response |-> Failure("Missing required fields")]
    ELSE [pc |-> "fetchJob", request |-> req, before |-> similarity_results]

Receive(req) ==
    /\ cs.pc = "idle"
    /\ cs' = Accepted(req)
    /\ UNCHANGED <<job_postings, resumes, similarity_results, db_log, upload, call,
                 other, dashboard, display>>

\* lines 110-116
FetchJob ==
    /\ cs.pc = "fetchJob"
    /\ LET rows == SelectJobPosting(job_postings, cs.request.data.jobPostingId)
       IN  cs' = IF Len(rows) # 1
                 THEN [pc |-> "done", request |-> cs.request, before |-> cs.before,
                       response |-> Failure("Job posting not found")]
                 ELSE [pc |-> "fetchResumes", request |-> cs.request,
                       before |-> cs.before, jobPosting |-> rows[1]]
    /\ UNCHANGED <<job_postings, resumes, similarity_results, db_log, upload, call,
                 other, dashboard, display>>

\* lines 118-154: the resumes are read, in any order; everything up to the
\* sort is computed before the next await
FetchResumes ==
    /\ cs.pc = "fetchResumes"
    /\ LET found == SelectResumes(resumes, cs.request.data.resumeIds)
       IN  IF NoResumesFound(found)
           THEN cs' = [pc |-> "done", request |-> cs.request, before |-> cs.before,
                       jobPosting |-> cs.jobPosting,
                       response |-> Failure("No resumes found")]
           ELSE \E order \in Orders(Len(found)) :
                   LET fetched == [i \in DOMAIN found |-> found[order[i]]]
                   IN  cs' = [pc |-> "delete", request |-> cs.request,
                              before |-> cs.before, jobPosting |-> cs.jobPosting,
                              resumes |-> fetched,
                              results |-> SortResults(
                                              ScoreResumes(cs.jobPosting, fetched))]
    /\ UNCHANGED <<job_postings, resumes, similarity_results, db_log, upload, call,
                 other, dashboard, display>>

\* lines 156-164: the stored results of the job posting are deleted
DeleteResults ==
    /\ cs.pc = "delete"
    /\ similarity_results' =
           SelectSeq(similarity_results,
                     LAMBDA row : row.job_posting_id # cs.request.data.jobPostingId)
    /\ db_log' = Append(db_log, "delete")
    /\ cs' = [cs EXCEPT !.pc = "insert"]
              @@ [insertData |-> InsertData(cs.request.data.jobPostingId, cs.results)]
    /\ UNCHANGED <<job_postings, resumes, upload, call, other, dashboard, display>>

\* lines 166-185: the insert succeeds or fails; the response
InsertResults ==
    /\ cs.pc = "insert"
    /\ db_log' = Append(db_log, "insert")
    /\ \E insertOk \in BOOLEAN :
          IF insertOk /\ \A i \in DOMAIN cs.insertData : ScoreAllowed(cs.insertData[i])
          THEN /\ similarity_results' = similarity_results \o cs.insertData
               /\ cs' = [cs EXCEPT !.pc = "done"]
                         @@ [response |-> [status |-> 200, success |-> TRUE,
                                           results |-> cs.results,
                                           totalProcessed |-> Len(cs.resumes)]]
          ELSE /\ UNCHANGED similarity_results
               /\ cs' = [cs EXCEPT !.pc = "done"]
                         @@ [response |-> Failure("insert failed")]
    /\ UNCHANGED <<job_postings, resumes, upload, call, other, dashboard, display>>

CalculateSimilarity ==
    \/ \E req \in Requests : Receive(req)
    \/ FetchJob
    \/ FetchResumes
    \/ DeleteResults
    \/ InsertResults

Next == CalculateSimilarity

Spec == Init /\ [][Next]_vars

(***************************************************************************)
(* Two invocations of calculate-similarity at the same time.  Each await   *)
(* of the handler is a point where the other invocation may run, so the    *)
(* steps of the second are the steps of the first, taken on `other`.       *)
(***************************************************************************)
\* lines 89-108
OverlapReceive(req) ==
    /\ other.pc = "idle"
    /\ other' = Accepted(req)
    /\ UNCHANGED <<job_postings, resumes, similarity_results, cs, db_log, upload, call,
                   dashboard, display>>

\* lines 110-116
OverlapFetchJob ==
    /\ other.pc = "fetchJob"
    /\ LET rows == SelectJobPosting(job_postings, other.request.data.jobPostingId)
       IN  other' = IF Len(rows) # 1
                    THEN [pc |-> "done", request |-> other.request,
                          before |-> other.before,
                          response |-> Failure("Job posting not found")]
                    ELSE [pc |-> "fetchResumes", request |-> other.request,
                          before |-> other.before, jobPosting |-> rows[1]]
    /\ UNCHANGED <<job_postings, resumes, similarity_results, cs, db_log, upload, call,
                   dashboard, display>>

\* lines 118-154
OverlapFetchResumes ==
    /\ other.pc = "fetchResumes"
    /\ LET found == SelectResumes(resumes, other.request.data.resumeIds)
       IN  IF NoResumesFound(found)
           THEN other' = [pc |-> "done", request |-> other.request,
                          before |-> other.before, jobPosting |-> other.jobPosting,
                          response |-> Failure("No resumes found")]
           ELSE \E order \in Orders(Len(found)) :
                   LET fetched == [i \in DOMAIN found |-> found[order[i]]]
                   IN  other' = [pc |-> "delete", request |-> other.request,
                                 before |-> other.before,
                                 jobPosting |-> other.jobPosting,
                                 resumes |-> fetched,
                                 results |-> SortResults(
                                                 ScoreResumes(other.jobPosting, fetched))]
    /\ UNCHANGED <<job_postings, resumes, similarity_results, cs, db_log, upload, call,
                   dashboard, display>>

\* lines 156-164
OverlapDeleteResults ==
    /\ other.pc = "delete"
    /\ similarity_results' =
           SelectSeq(similarity_results,
                     LAMBDA row : row.job_posting_id # other.request.data.jobPostingId)
    /\ db_log' = Append(db_log, "delete")
    /\ other' = [other EXCEPT !.pc = "insert"]
                 @@ [insertData |-> InsertData(other.request.data.jobPostingId,
                                               other.results)]
    /\ UNCHANGED <<job_postings, resumes, cs, upload, call, dashboard, display>>

\* lines 166-185
OverlapInsertResults ==
    /\ other.pc = "insert"
    /\ db_log' = Append(db_log, "insert")
    /\ \E insertOk \in BOOLEAN :
          IF insertOk /\ \A i \in DOMAIN other.insertData :
                            ScoreAllowed(other.insertData[i])
          THEN /\ similarity_results' = similarity_results \o other.insertData
               /\ other' = [other EXCEPT !.pc = "done"]
                            @@ [response |-> [status |-> 200, success |-> TRUE,
                                              results |-> other.results,
                                              totalProcessed |-> Len(other.resumes)]]
          ELSE /\ UNCHANGED similarity_results
               /\ other' = [other EXCEPT !.pc = "done"]
                            @@ [response |-> Failure("insert failed")]
    /\ UNCHANGED <<job_postings, resumes, cs, upload, call, dashboard, display>>

\* the requests that reach the database: authorized, with both fields
Posts ==
    {req \in Requests :
        /\ req.method = "POST"
        /\ req.authorization
        /\ ~MissingRequiredFields(req.data)}

\* one job posting, the resumes of up to MaxResumes files
InitOverlap ==
    /\ InitOver({DescTwoWords}, {FileSameAsQuery, FileUpper})
    /\ job_postings # <<>>

NextOverlap ==
    \/ \E req \in Posts : Receive(req)
    \/ FetchJob
    \/ FetchResumes
    \/ DeleteResults
    \/ InsertResults
    \/ \E req \in Posts : OverlapReceive(req)
    \/ OverlapFetchJob
    \/ OverlapFetchResumes
    \/ OverlapDeleteResults
    \/ OverlapInsertResults

SpecOverlap == InitOverlap /\ [][NextOverlap]_vars

(***************************************************************************)
(* The scenario of one query and two candidates.                           *)
(***************************************************************************)
\* "Senior Frontend Developer React TypeScript Redux"
ScenarioQuery == <<"S","e","n","i","o","r"," ","F","r","o","n","t","e","n","d"," ","D","e","v","e","l","o","p","e","r"," ","R","e","a","c","t"," ","T","y","p","e","S","c","r","i","p","t"," ","R","e","d","u","x">>
\* "Senior Software Engineer React TypeScript Redux six years"
ScenarioA == <<"S","e","n","i","o","r"," ","S","o","f","t","w","a","r","e"," ","E","n","g","i","n","e","e","r"," ","R","e","a","c","t"," ","T","y","p","e","S","c","r","i","p","t"," ","R","e","d","u","x"," ","s","i","x"," ","y","e","a","r","s">>
\* "Python Developer Django Flask PostgreSQL"
ScenarioB == <<"P","y","t","h","o","n"," ","D","e","v","e","l","o","p","e","r"," ","D","j","a","n","g","o"," ","F","l","a","s","k"," ","P","o","s","t","g","r","e","S","Q","L">>

InitScenario == InitOver({ScenarioQuery}, {ScenarioA, ScenarioB})

SpecScenario == InitScenario /\ [][Next]_vars

(***************************************************************************)
(* cosineSimilarity on its own: a call with two vectors over two keys.     *)
(***************************************************************************)
Keys == {"p", "q"}

Vectors ==
    UNION {[keys -> -MaxWeight .. MaxWeight] : keys \in SUBSET Keys}

ZeroMagnitude(vec) == \A k \in DOMAIN vec : vec[k] = 0

InitCosine ==
    /\ job_postings = <<>>
    /\ resumes = <<>>
    /\ similarity_results = <<>>
    /\ cs = Idle
    /\ db_log = <<>>
    /\ upload = NoUpload
    /\ other = Idle
    /\ dashboard = NoDashboard
    /\ display = NoDisplay
    /\ call \in {[pc |-> "called", vec1 |-> v, vec2 |-> w] : v, w \in Vectors}

CallCosineSimilarity ==
    /\ call.pc = "called"
    /\ call' = [pc |-> "returned", vec1 |-> call.vec1, vec2 |-> call.vec2,
                result |-> cosineSimilarity(call.vec1, call.vec2)]
    /\ UNCHANGED <<job_postings, resumes, similarity_results, cs, db_log, upload,
                 other, dashboard, display>>

NextCosine == CallCosineSimilarity

SpecCosine == InitCosine /\ [][NextCosine]_vars

(***************************************************************************)
(* findMatchedKeywords on its own: a call with two token sequences and a   *)
(* topN.                                                                   *)
(***************************************************************************)
KeywordTokens == {<<"a","a","a">>, <<"b","b","b">>, <<"c","c","c">>}

TokenLists == UNION {[1 .. n -> KeywordTokens] : n \in 0 .. MaxKeywordTokens}

TopNs == {0, 1, 2, DefaultTopN}

InitKeywords ==
    /\ job_postings = <<>>
    /\ resumes = <<>>
    /\ similarity_results = <<>>
    /\ cs = Idle
    /\ db_log = <<>>
    /\ upload = NoUpload
    /\ other = Idle
    /\ dashboard = NoDashboard
    /\ display = NoDisplay
    /\ call \in {[pc |-> "called", jobTokens |-> j, resumeTokens |-> r, topN |-> n] :
                    j \in TokenLists, r \in TokenLists, n \in TopNs}

CallFindMatchedKeywords ==
    /\ call.pc = "called"
    /\ call' = [pc |-> "returned", jobTokens |-> call.jobTokens,
                resumeTokens |-> call.resumeTokens, topN |-> call.topN,
                result |-> findMatchedKeywords(call.jobTokens, call.resumeTokens,
                                               call.topN)]
    /\ UNCHANGED <<job_postings, resumes, similarity_results, cs, db_log, upload,
                 other, dashboard, display>>

NextKeywords == CallFindMatchedKeywords

SpecKeywords == InitKeywords /\ [][NextKeywords]_vars

(***************************************************************************)
(* tokenize on its own: a call with a text of lower and upper case         *)
(* letters, digits, punctuation and whitespace.                            *)
(***************************************************************************)
TextChars == {"a", "B", "7", "-", " ", "\n"}

Texts == UNION {[1 .. n -> TextChars] : n \in 0 .. MaxTextLength}

InitTokenize ==
    /\ job_postings = <<>>
    /\ resumes = <<>>
    /\ similarity_results = <<>>
    /\ cs = Idle
    /\ db_log = <<>>
    /\ upload = NoUpload
    /\ other = Idle
    /\ dashboard = NoDashboard
    /\ display = NoDisplay
    /\ call \in {[pc |-> "called", text |-> t] : t \in Texts}

CallTokenize ==
    /\ call.pc = "called"
    /\ call' = [pc |-> "returned", text |-> call.text, result |-> tokenize(call.text)]
    /\ UNCHANGED <<job_postings, resumes, similarity_results, cs, db_log, upload,
                 other, dashboard, display>>

NextTokenize == CallTokenize

SpecTokenize == InitTokenize /\ [][NextTokenize]_vars

(***************************************************************************)
(* extractSkills on its own: a call with a text.                           *)
(***************************************************************************)
SkillChars == {"c", "C", "+", "#", "1", " "}

SkillTexts == UNION {[1 .. n -> SkillChars] : n \in 0 .. MaxTextLength}

InitSkills ==
    /\ job_postings = <<>>
    /\ resumes = <<>>
    /\ similarity_results = <<>>
    /\ cs = Idle
    /\ db_log = <<>>
    /\ upload = NoUpload
    /\ other = Idle
    /\ dashboard = NoDashboard
    /\ display = NoDisplay
    /\ call \in {[pc |-> "called", text |-> t] : t \in SkillTexts}

CallExtractSkills ==
    /\ call.pc = "called"
    /\ call' = [pc |-> "returned", text |-> call.text,
                result |-> extractSkills(call.text)]
    /\ UNCHANGED <<job_postings, resumes, similarity_results, cs, db_log, upload,
                 other, dashboard, display>>

NextSkills == CallExtractSkills

SpecSkills == InitSkills /\ [][NextSkills]_vars

(***************************************************************************)
(* process-resume on its own: a call with a content put together from      *)
(* short and long words, a digit, a space and a line break.                *)
(***************************************************************************)
\* 24 letters
LongWord == <<"a","b","c","d","e","f","g","h","i","j","k","l",
              "m","n","o","p","q","r","s","t","u","v","w","x">>

NameParts == {<<"J","o">>, <<"x">>, <<"7">>, <<" ">>, <<"\n">>, LongWord}

RECURSIVE JoinParts(_)
JoinParts(parts) ==
    IF parts = <<>> THEN <<>> ELSE Head(parts) \o JoinParts(Tail(parts))

NameContents ==
    {JoinParts(parts) : parts \in UNION {[1 .. n -> NameParts] : n \in 0 .. MaxNameParts}}

InitName ==
    /\ job_postings = <<>>
    /\ resumes = <<>>
    /\ similarity_results = <<>>
    /\ cs = Idle
    /\ db_log = <<>>
    /\ upload = NoUpload
    /\ other = Idle
    /\ dashboard = NoDashboard
    /\ display = NoDisplay
    /\ call \in {[pc |-> "called", content |-> c] : c \in NameContents}

\* process-resume lines 250-288, with an insert that succeeds
CallProcessResume ==
    /\ call.pc = "called"
    /\ call' = [pc |-> "returned", content |-> call.content,
                result |-> processResume([filename |-> FileName,
                                          content |-> call.content],
                                         resumes, TRUE).response]
    /\ UNCHANGED <<job_postings, resumes, similarity_results, cs, db_log, upload,
                   other, dashboard, display>>

NextName == CallProcessResume

SpecName == InitName /\ [][NextName]_vars

(***************************************************************************)
(* FileUpload: handleSubmit between its awaits, with the three functions   *)
(* it calls.  process-job-description and process-resume answer in one     *)
(* step; calculate-similarity runs through its own steps.                  *)
(***************************************************************************)
UploadDescriptions == {<<>>, DescTwoWords}
\* file contents; <<>> is an empty file
UploadContents == {<<>>, FileSameAsQuery}
FileLists == UNION {[1 .. n -> UploadContents] : n \in 0 .. MaxResumes}

InitUpload ==
    /\ job_postings = <<>>
    /\ resumes = <<>>
    /\ similarity_results = <<>>
    /\ cs = Idle
    /\ db_log = <<>>
    /\ upload = NoUpload
    /\ other = Idle
    /\ dashboard = NoDashboard
    /\ display = NoDisplay
    /\ call = NoCall

\* lines 415-419: the catch block
Caught == [stage |-> "idle", progress |-> 0, pc |-> "idle",
           submits |-> upload.submits, running |-> upload.running - 1,
           completed |-> upload.completed]

\* status.progress is held exactly, in units of 1 / ProgressScale
ProgressScale == LcmUpTo(MaxResumes)

\* line 372: 30 + ((i + 1) / totalResumes) * 40, for i counted from 0
LoopProgress(done, totalResumes) ==
    30 * ProgressScale + done * 40 * (ProgressScale \div totalResumes)

\* the controls enabled whatever the stage
SubmitAlwaysEnabled(stage) == TRUE

\* lines 439, 483, 492, 523: disabled={status.stage !== 'idle'} on the three
\* inputs and on the submit button
SubmitEnabled(stage) == stage = "idle"

\* lines 295-329: the form is submitted; validation, first status, first fetch
handleSubmit(jobTitle, jobDescription, resumeFiles) ==
    /\ SubmitEnabled(upload.stage)
    /\ upload.submits < MaxSubmits
    /\ upload' = IF Len(resumeFiles) = 0 \/ jobDescription = <<>> \/ jobTitle = <<>>
                 THEN [upload EXCEPT !.submits = @ + 1]
                 ELSE [stage |-> "uploading", progress |-> 10 * ProgressScale,
                       pc |-> "awaitJob",
                       submits |-> upload.submits + 1,
                       running |-> upload.running + 1,
                       completed |-> upload.completed,
                       jobTitle |-> jobTitle, jobDescription |-> jobDescription,
                       resumeFiles |-> resumeFiles]
    /\ UNCHANGED <<job_postings, resumes, similarity_results, cs, db_log, call,
                 other, dashboard, display>>

\* lines 313-343: process-job-description answers
JobResponse ==
    /\ upload.pc = "awaitJob"
    /\ \E insertOk \in BOOLEAN :
          LET answer == processJobDescription(
                            [title |-> upload.jobTitle,
                             description |-> upload.jobDescription],
                            job_postings, insertOk)
          IN  /\ job_postings' = answer.table
              /\ upload' = IF ~answer.response.success THEN Caught
                           ELSE [upload EXCEPT !.stage = "processing",
                                               !.progress = 30 * ProgressScale,
                                               !.pc = "resume"]
                                @@ [jobPostingId |-> answer.response.jobPosting.id,
                                    resumeIds |-> <<>>, i |-> 1]
    /\ UNCHANGED <<resumes, similarity_results, cs, db_log, call,
                 other, dashboard, display>>

\* lines 283-293: the FileReader fails
ReadError ==
    /\ upload.pc = "resume"
    /\ upload' = Caught
    /\ UNCHANGED <<job_postings, resumes, similarity_results, cs, db_log, call,
                 other, dashboard, display>>

\* lines 345-401: one turn of the loop: the file is read, process-resume
\* answers, the id is kept if it succeeded; after the last file the request
\* to calculate-similarity is sent
ResumeResponse ==
    /\ upload.pc = "resume"
    /\ \E insertOk \in BOOLEAN :
          LET content   == upload.resumeFiles[upload.i]
              answer    == processResume([filename |-> FileName, content |-> content],
                                         resumes, insertOk)
              resumeIds == IF answer.response.success
                           THEN Append(upload.resumeIds, answer.response.resume.id)
                           ELSE upload.resumeIds
          IN  /\ resumes' = answer.table
              /\ IF upload.i < Len(upload.resumeFiles)
                 THEN /\ upload' = [upload EXCEPT
                                        !.resumeIds = resumeIds,
                                        !.progress = LoopProgress(
                                                         upload.i, Len(upload.resumeFiles)),
                                        !.i = @ + 1]
                      /\ UNCHANGED cs
                 ELSE /\ cs.pc = "idle"
                      /\ upload' = [upload EXCEPT !.resumeIds = resumeIds,
                                                  !.stage = "calculating",
                                                  !.progress = 80 * ProgressScale,
                                                  !.pc = "awaitSimilarity"]
                      /\ cs' = Accepted([method |-> "POST", authorization |-> TRUE,
                                         data |-> [jobPostingId |-> upload.jobPostingId,
                                                   resumeIds |-> resumeIds]])
    /\ UNCHANGED <<job_postings, similarity_results, db_log, call,
                 other, dashboard, display>>

\* the answer of calculate-similarity taken for a success whatever it says
SimilarityUnchecked(similarityResult) == TRUE

\* line 404: if (!similarityResult.success) throw new Error(...)
SimilaritySucceeded(similarityResult) == similarityResult.success

\* lines 403-414: calculate-similarity has answered
SimilarityResponse ==
    /\ upload.pc = "awaitSimilarity"
    /\ cs.pc = "done"
    /\ upload' = IF ~SimilaritySucceeded(cs.response) THEN Caught
                 ELSE [upload EXCEPT !.stage = "complete",
                                     !.progress = 100 * ProgressScale,
                                     !.pc = "timer",
                                     !.running = @ - 1]
    /\ cs' = Idle
    /\ UNCHANGED <<job_postings, resumes, similarity_results, db_log, call,
                 other, dashboard, display>>

\* Dashboard.tsx lines 17-20, with setShowResults(false) left out
handleResetKeepsShowing(dash) == [dash EXCEPT !.activeJobId = Null]

\* Dashboard.tsx lines 12-15
handleProcessingComplete(dash, jobId) ==
    [dash EXCEPT !.activeJobId = jobId, !.showResults = TRUE]

\* Dashboard.tsx lines 17-20
handleReset(dash) == [dash EXCEPT !.showResults = FALSE, !.activeJobId = Null]

\* lines 412-414 and Dashboard.tsx lines 48-72: the timer fires and calls
\* onComplete, which is handleProcessingComplete; the Dashboard renders
\* ResultsDisplay in the place of FileUpload, with results [] and loading true
CompleteTimer ==
    /\ upload.pc = "timer"
    /\ upload' = [upload EXCEPT !.pc = "finished",
                                !.completed = Append(@, upload.jobPostingId)]
    /\ dashboard' = handleProcessingComplete(dashboard, upload.jobPostingId)
    /\ display' = [pc |-> "loading", results |-> <<>>, loading |-> TRUE]
    /\ UNCHANGED <<job_postings, resumes, similarity_results, cs, db_log, call,
                   other>>

\* .order('similarity_score', { ascending: false }): the rows in an order of
\* non-increasing score; rows of equal score come in any order
OrderedByScore(rows) ==
    {data \in {[i \in DOMAIN rows |-> rows[order[i]]] : order \in Orders(Len(rows))} :
        \A i, j \in DOMAIN data :
            i < j => data[i].similarity_score >= data[j].similarity_score}

\* ResultsDisplay.tsx lines 20-43: the effect of the mount runs loadResults;
\* the select fails, or its rows become the results; loading ends
loadResults ==
    /\ display.pc = "loading"
    /\ \E error \in BOOLEAN :
          IF error
          THEN display' = [display EXCEPT !.pc = "shown", !.loading = FALSE]
          ELSE \E data \in OrderedByScore(RowsOfJob(dashboard.activeJobId)) :
                  display' = [pc |-> "shown", results |-> data, loading |-> FALSE]
    /\ UNCHANGED <<job_postings, resumes, similarity_results, cs, db_log, upload, call,
                   other, dashboard>>

\* ResultsDisplay.tsx lines 113-119 and Dashboard.tsx lines 17-20, 48-72: the
\* button New Analysis, rendered once loading is over, calls handleReset; the
\* Dashboard renders a new FileUpload in the place of ResultsDisplay
onReset ==
    /\ display.pc = "shown"
    /\ dashboard' = handleReset(dashboard)
    /\ display' = NoDisplay
    /\ upload' = [NoUpload EXCEPT !.submits = upload.submits,
                                  !.completed = upload.completed]
    /\ UNCHANGED <<job_postings, resumes, similarity_results, cs, db_log, call,
                   other>>

NextUpload ==
    \/ \E description \in UploadDescriptions, files \in FileLists :
           handleSubmit(Title, description, files)
    \/ JobResponse
    \/ ReadError
    \/ ResumeResponse
    \/ SimilarityResponse
    \/ CompleteTimer
    \/ loadResults
    \/ onReset
    \/ FetchJob
    \/ FetchResumes
    \/ DeleteResults
    \/ InsertResults

SpecUpload == InitUpload /\ [][NextUpload]_vars

(***************************************************************************)
(* Properties of a calculate-similarity invocation.                        *)
(***************************************************************************)
Responded == cs.pc = "done" /\ cs.request.method = "POST"
Succeeded == Responded /\ Has(cs.response, "success") /\ cs.response.success
Failed == Responded /\ ~cs.response.success

\* C1: in a successful run the emitted results are in non-increasing order
\* of score, and the rows inserted for them carry the rankings 1..N in that
\* order: the row of position i has ranking i, the score and the resume of
\* result i, and these rows are what is stored for the job posting.
C1_SortedAndRanked ==
    Succeeded =>
        LET results == cs.response.results
            rows    == cs.insertData
        IN  /\ \A i, j \in DOMAIN results :
                   i < j => results[i].similarity >= results[j].similarity
            /\ Len(results) = Len(cs.resumes)
            /\ DOMAIN rows = DOMAIN results
            /\ \A i \in DOMAIN rows :
                   /\ rows[i].ranking = i
                   /\ rows[i].resume_id = results[i].resumeId
                   /\ rows[i].similarity_score = results[i].similarity
            /\ SelectSeq(similarity_results,
                         LAMBDA row : row.job_posting_id = cs.jobPosting.id) = rows

\* a run over two resumes fetched in ascending order of score
C1_Witness ==
    /\ Succeeded
    /\ Len(cs.response.results) = 2
    /\ cs.response.results[1].similarity > cs.response.results[2].similarity
    /\ cs.resumes[1].id = cs.response.results[2].resumeId

\* C2: in the output of a run every candidate appears exactly once: there is
\* one result for every resume of the table that the request names, and no
\* resume id occurs in two results.
C2_EachCandidateOnce ==
    Succeeded =>
        LET results == cs.response.results
        IN  /\ \A i, j \in DOMAIN results :
                   i # j => results[i].resumeId # results[j].resumeId
            /\ {results[i].resumeId : i \in DOMAIN results}
                   = {resumes[k].id : k \in DOMAIN resumes}
                     \cap Range(cs.request.data.resumeIds)

\* a run that names two resumes in descending order of id
C2_Witness ==
    /\ Succeeded
    /\ cs.request.data.resumeIds = <<2, 1>>
    /\ Len(cs.response.results) = 2

\* C3: in the run of the scenario (query, candidate A, candidate B, submitted
\* in the order A, B) A has rank 1, B has rank 2 and A's score is strictly
\* greater than B's.
C3_ScenarioRanksAFirst ==
    ( /\ Succeeded
      /\ cs.jobPosting.description = ScenarioQuery
      /\ Len(resumes) = 2
      /\ resumes[1].extracted_text = ScenarioA
      /\ resumes[2].extracted_text = ScenarioB
      /\ cs.request.data.resumeIds = <<1, 2>> )
    => /\ cs.insertData[1].resume_id = 1 /\ cs.insertData[1].ranking = 1
       /\ cs.insertData[2].resume_id = 2 /\ cs.insertData[2].ranking = 2
       /\ cs.insertData[1].similarity_score > cs.insertData[2].similarity_score

\* the run has one candidate and its text is the text of the query
SoleCopyOfQuery ==
    /\ Succeeded
    /\ Len(cs.resumes) = 1
    /\ cs.resumes[1].extracted_text = QueryText(cs.jobPosting)

\* C4, as claimed: a sole candidate whose text is the query text scores 100.00.
C4_CopyScoresHundred ==
    SoleCopyOfQuery => cs.response.results[1].similarity = 10000

\* C4, amended: a sole candidate whose text is the query text scores 100.00
\* when that text has at least one token (and 0 when it has none).
C4_CopyWithTokensScoresHundred ==
    SoleCopyOfQuery =>
        cs.response.results[1].similarity =
            IF tokenize(QueryText(cs.jobPosting)) # <<>> THEN 10000 ELSE 0

C4_Witness ==
    /\ SoleCopyOfQuery
    /\ tokenize(QueryText(cs.jobPosting)) # <<>>
    /\ cs.response.results[1].similarity = 10000

\* C5: every score a run computes lies in [0, 100] (0 .. 10000 hundredths),
\* also when term weights are negative.
C5_ScoreInRange ==
    Has(cs, "results") =>
        \A i \in DOMAIN cs.results :
            cs.results[i].similarity >= 0 /\ cs.results[i].similarity <= 10000

\* a score strictly between 0 and 100 from a query vector that has a
\* negative and a positive weight
C5_Witness ==
    /\ Has(cs, "results")
    /\ \E i \in DOMAIN cs.results :
           cs.results[i].similarity > 0 /\ cs.results[i].similarity < 10000
    /\ LET vec == calculateTfIdf(JobTokens(cs.jobPosting),
                                 AllTokens(cs.jobPosting, cs.resumes))
       IN  (\E t \in DOMAIN vec : vec[t] < 0) /\ (\E t \in DOMAIN vec : vec[t] > 0)

\* C8: a run with a candidate whose text is empty fails and emits no result.
\* (The query text is never empty: it contains the space of line 127.)
C8_EmptyTextFails ==
    ( /\ Responded
      /\ Has(cs, "resumes")
      /\ \E i \in DOMAIN cs.resumes : cs.resumes[i].extracted_text = <<>> )
    => ~cs.response.success /\ ~Has(cs.response, "results")

\* the request names no resume, or none that the table holds
NoCandidate ==
    /\ Responded
    /\ cs.request.authorization
    /\ \/ ~Has(cs.request.data, "resumeIds")
       \/ cs.request.data.resumeIds = <<>>
       \/ SelectResumes(resumes, cs.request.data.resumeIds) = <<>>

\* C9: a request with an empty or missing candidate list, or for which no
\* resume is found, gets an error response, and the invocation executes
\* neither the delete nor the insert on similarity_results.
C9_NoCandidateNoWrite ==
    NoCandidate =>
        /\ cs.response.status = 400
        /\ ~cs.response.success
        /\ Has(cs.response, "error")
        /\ db_log = <<>>

\* no resume found, with results of an earlier run stored
C9_Witness ==
    /\ NoCandidate
    /\ cs.response.error = "No resumes found"
    /\ similarity_results # <<>>

\* C10: the response of an invocation is either a success with exactly one
\* result for every resume fetched for the run, or a failure without
\* results; never results for a part of the fetched resumes.
C10_AllOrNothing ==
    Responded =>
        IF cs.response.success
        THEN /\ Len(cs.response.results) = Len(cs.resumes)
             /\ cs.response.totalProcessed = Len(cs.resumes)
             /\ \A k \in DOMAIN cs.resumes :
                    Cardinality({i \in DOMAIN cs.response.results :
                        cs.response.results[i].resumeId = cs.resumes[k].id}) = 1
        ELSE /\ cs.response.status = 400
             /\ DOMAIN cs.response = {"status", "success", "error"}

\* the insert failed after the results of two resumes had been computed
C10_Witness ==
    /\ Failed
    /\ cs.response.error = "insert failed"
    /\ Len(cs.results) = 2

\* a key whose weights in the two vectors have opposite signs
OpposedKey(vec1, vec2) ==
    \E k \in DOMAIN vec1 \cap DOMAIN vec2 :
        (vec1[k] > 0 /\ vec2[k] < 0) \/ (vec1[k] < 0 /\ vec2[k] > 0)

C7_FailedResumeFailsRun ==
    ( /\ upload.pc = "awaitSimilarity"
      /\ cs.pc = "done"
      /\ Len(upload.resumeIds) < Len(upload.resumeFiles) )
    => ~cs.response.success

\* the corpus of the run and the token list of its k-th resume
Corpus == AllTokens(cs.jobPosting, cs.resumes)
ResumeTokens(k) == tokenize(cs.resumes[k].extracted_text)

\* C11: a candidate whose text yields no token has an empty weight vector
\* and the score 0, and so has every candidate when the query yields no
\* token; the run does not fail for it (only a failed insert makes it
\* fail), and a successful run stores a ranked row for that candidate.
C11_NoTokensScoresZero ==
    Has(cs, "results") =>
        \A k \in DOMAIN cs.resumes :
            (ResumeTokens(k) = <<>> \/ JobTokens(cs.jobPosting) = <<>>) =>
                /\ ResumeTokens(k) = <<>> =>
                       DOMAIN calculateTfIdf(ResumeTokens(k), Corpus) = {}
                /\ \E i \in DOMAIN cs.results :
                       /\ cs.results[i].resumeId = cs.resumes[k].id
                       /\ cs.results[i].similarity = 0
                /\ cs.pc = "done" =>
                       \/ cs.response.success
                       \/ cs.response.error = "insert failed"
                /\ Succeeded =>
                       \E i \in DOMAIN cs.insertData :
                           /\ cs.insertData[i].resume_id = cs.resumes[k].id
                           /\ cs.insertData[i].ranking = i
                           /\ cs.insertData[i].similarity_score = 0
                           /\ cs.insertData[i] \in Range(similarity_results)

\* a successful run of a query with tokens over a resume without tokens and
\* a resume with tokens
C11_Witness ==
    /\ Succeeded
    /\ Len(cs.resumes) = 2
    /\ JobTokens(cs.jobPosting) # <<>>
    /\ ResumeTokens(1) = <<>>
    /\ ResumeTokens(2) # <<>>

\* C12, as claimed: every weight of the vector calculateTfIdf produces for a
\* document of the corpus is non-negative.
C12_WeightsNonNegative ==
    cs.pc = "delete" =>
        LET corpus == Corpus
        IN  \A d \in DOMAIN corpus :
                LET vec == calculateTfIdf(corpus[d], corpus)
                IN  \A t \in DOMAIN vec : vec[t] >= 0

\* C12, amended: the weight of a token that occurs in df of the N documents
\* of the corpus is positive when df < N - 1, zero when df = N - 1 and
\* negative when df = N.
C12_WeightSign ==
    cs.pc = "delete" =>
        LET corpus == Corpus
            N      == Len(cs.resumes) + 1
        IN  \A d \in DOMAIN corpus :
                LET vec == calculateTfIdf(corpus[d], corpus)
                IN  /\ DOMAIN vec = Range(corpus[d])
                    /\ \A t \in DOMAIN vec :
                           LET df == Cardinality({e \in DOMAIN corpus :
                                                     t \in Range(corpus[e])})
                           IN  /\ df < N - 1 => vec[t] > 0
                               /\ df = N - 1 => vec[t] = 0
                               /\ df = N => vec[t] < 0

\* a corpus whose vectors have a negative, a zero and a positive weight
C12_Witness ==
    /\ cs.pc = "delete"
    /\ LET corpus == Corpus
       IN  \A sgn \in {-1, 0, 1} :
               \E d \in DOMAIN corpus :
                   LET vec == calculateTfIdf(corpus[d], corpus)
                   IN  \E t \in DOMAIN vec :
                           \/ sgn = -1 /\ vec[t] < 0
                           \/ sgn = 0 /\ vec[t] = 0
                           \/ sgn = 1 /\ vec[t] > 0

\* df > N / e, that is ln df + 1 > ln N, in the units of LnTable
MoreThanNOverE(df, N) == LnTable[df] + 1000 > LnTable[N]

\* C13, as claimed: the idf of a token is negative whenever the token
\* occurs in strictly more than N / e of the N documents of the corpus.
C13_IdfNegativeAboveNOverE ==
    cs.pc = "delete" =>
        LET corpus == Corpus
        IN  \A d \in DOMAIN corpus :
                LET idf == InverseDocumentFrequency(corpus[d], corpus)
                IN  \A t \in DOMAIN idf :
                        MoreThanNOverE(DocumentFrequency(t, corpus), Len(corpus))
                            => idf[t] < 0

\* C13, amended: the idf of a token is negative exactly when df + 1 > N,
\* that is when the token occurs in every document of the corpus; it is 0
\* when the token occurs in all documents but one.
C13_IdfNegativeInAllDocuments ==
    cs.pc = "delete" =>
        LET corpus == Corpus
        IN  \A d \in DOMAIN corpus :
                LET idf == InverseDocumentFrequency(corpus[d], corpus)
                IN  \A t \in DOMAIN idf :
                        LET df == Cardinality({e \in DOMAIN corpus :
                                                  t \in Range(corpus[e])})
                        IN  /\ idf[t] < 0 <=> df = Len(corpus)
                            /\ idf[t] = 0 <=> df = Len(corpus) - 1

\* a corpus of three documents with a token in all three and a token in two
C13_Witness ==
    /\ cs.pc = "delete"
    /\ LET corpus == Corpus
           idf    == InverseDocumentFrequency(corpus[1], corpus)
       IN  /\ Len(corpus) = 3
           /\ \E t \in DOMAIN idf : idf[t] < 0
           /\ \E t \in DOMAIN idf : idf[t] = 0

\* the place of a resume id in the resumeIds of the request
Submitted(id) ==
    CHOOSE n \in DOMAIN cs.request.data.resumeIds : cs.request.data.resumeIds[n] = id

\* C14: candidates with equal scores are ranked in the order of the
\* resumeIds of the request.
C14_TiesInSubmissionOrder ==
    Succeeded =>
        \A i, j \in DOMAIN cs.response.results :
            ( /\ i < j
              /\ cs.response.results[i].similarity = cs.response.results[j].similarity )
            => Submitted(cs.response.results[i].resumeId)
                   < Submitted(cs.response.results[j].resumeId)

\* the results of the run had its resumes been fetched in table order
InTableOrder ==
    SortResults(ScoreResumes(cs.jobPosting,
                             SelectResumes(resumes, cs.request.data.resumeIds)))

\* C15: the (candidate, score, matched terms) triples of a run do not depend
\* on the order in which the resumes are requested or fetched; in the sorted
\* results only candidates of equal score can change places.
C15_OrderIndependent ==
    cs.pc = "delete" =>
        LET inTableOrder == InTableOrder
        IN  /\ Range(cs.results) = Range(inTableOrder)
            /\ Len(cs.results) = Len(inTableOrder)
            /\ \A i \in DOMAIN cs.results :
                   /\ cs.results[i].similarity = inTableOrder[i].similarity
                   /\ cs.results[i] # inTableOrder[i] =>
                          \E j \in DOMAIN cs.results :
                              /\ j # i
                              /\ cs.results[j].similarity = cs.results[i].similarity

\* two resumes of different positive scores, requested and fetched against
\* the order of the table
C15_Witness ==
    /\ cs.pc = "delete"
    /\ Len(cs.resumes) = 2
    /\ cs.request.data.resumeIds = <<2, 1>>
    /\ cs.resumes[1].id = 2
    /\ cs.results[1].similarity > cs.results[2].similarity
    /\ cs.results[2].similarity > 0

\* C17: the corpus of a run is the token list of the query and one token
\* list for each of the N fetched resumes, N + 1 in all; a token of the
\* query that occurs in k resumes has document frequency k + 1 (at least 1),
\* and its idf is ln((N + 1) / (k + 2)).
C17_CorpusIncludesQuery ==
    cs.pc = "delete" =>
        LET corpus == Corpus
            N      == Len(cs.resumes)
            query  == tokenize(QueryText(cs.jobPosting))
            idf    == InverseDocumentFrequency(query, corpus)
        IN  /\ Len(corpus) = N + 1
            /\ corpus[1] = query
            /\ \A t \in Range(query) :
                   LET k == Cardinality({r \in DOMAIN cs.resumes :
                                            t \in Range(corpus[r + 1])})
                   IN  /\ DocumentFrequency(t, corpus) = k + 1
                       /\ idf[t] = MathLog(N + 1, k + 2)

\* a query token that occurs in one of two resumes
C17_Witness ==
    /\ cs.pc = "delete"
    /\ Len(cs.resumes) = 2
    /\ LET corpus == Corpus
       IN  \E t \in Range(corpus[1]) :
               /\ DocumentFrequency(t, corpus) = 2
               /\ t \in Range(ResumeTokens(1))
               /\ t \notin Range(ResumeTokens(2))

\* occurrences in jobTokens + occurrences in resumeTokens, for the call
CombinedCount(term) == Count(term, call.jobTokens) + Count(term, call.resumeTokens)

\* the place of the first occurrence of a term in jobTokens
FirstInJob(term) ==
    CHOOSE i \in DOMAIN call.jobTokens :
        /\ call.jobTokens[i] = term
        /\ \A j \in 1 .. i - 1 : call.jobTokens[j] # term

\* C16: findMatchedKeywords returns at most topN terms (as many as there are
\* common terms, if fewer), each in both token sequences, none twice, in
\* non-increasing order of combined count, terms of equal combined count in
\* the order of their first occurrence in jobTokens.
C16_MatchedKeywords ==
    call.pc = "returned" =>
        LET result == call.result
            common == Range(call.jobTokens) \cap Range(call.resumeTokens)
        IN  /\ Len(result) <= call.topN
            /\ Len(result) = Min(call.topN, Cardinality(common))
            /\ \A i \in DOMAIN result : result[i] \in common
            /\ \A i, j \in DOMAIN result : i # j => result[i] # result[j]
            /\ \A i, j \in DOMAIN result :
                   i < j =>
                       \/ CombinedCount(result[i]) > CombinedCount(result[j])
                       \/ /\ CombinedCount(result[i]) = CombinedCount(result[j])
                          /\ FirstInJob(result[i]) < FirstInJob(result[j])

\* two common terms, topN = 1, and the term returned is the one of higher
\* combined count although the other comes first in jobTokens
C16_Witness ==
    /\ call.pc = "returned"
    /\ call.topN = 1
    /\ Cardinality(Range(call.jobTokens) \cap Range(call.resumeTokens)) = 2
    /\ Len(call.result) = 1
    /\ call.result[1] # call.jobTokens[1]
    /\ call.jobTokens[1] \in Range(call.resumeTokens)

\* C18: every token tokenize returns has at least 3 characters, all of them
\* lower case letters or digits; the empty text yields no token.
C18_TokensLowerAlphanumeric ==
    call.pc = "returned" =>
        /\ \A i \in DOMAIN call.result :
               /\ Len(call.result[i]) >= 3
               /\ \A k \in DOMAIN call.result[i] :
                      \/ IsLower(call.result[i][k])
                      \/ call.result[i][k] \in Digits
        /\ call.text = <<>> => call.result = <<>>

\* a text with an upper case letter and punctuation that yields a token
C18_Witness ==
    /\ call.pc = "returned"
    /\ call.text = <<"-", "a", "B", "7">>
    /\ call.result = << <<"a", "b", "7">> >>

\* the vocabulary entry for c++ and the label "c++"
CppEntry == commonSkills[5]
CppLabel == <<"c", "+", "+">>

C20_SingleSubmission ==
    /\ upload.running <= 1
    /\ upload.running = 1 => ~SubmitEnabled(upload.stage)
    /\ upload.running = 1 <=> upload.stage \in {"uploading", "processing", "calculating"}

\* a second submission under way after the first has failed
C20_Witness ==
    /\ upload.submits = 2
    /\ upload.running = 1
    /\ upload.stage = "processing"
    /\ Len(job_postings) = 2

\* nothing of calculate-similarity is between two awaits
Quiet == cs.pc \in {"idle", "done"} /\ other.pc \in {"idle", "done"}

\* C21: for every job posting, once no calculate-similarity invocation is in
\* flight, however the invocations for it were interleaved, its stored rows
\* are those of one run: the resume_ids are pairwise distinct and the
\* rankings are exactly 1..N
C21_RowsOfOneRun ==
    Quiet =>
        \A j \in DOMAIN job_postings :
            LET rows == RowsOfJob(job_postings[j].id)
            IN  /\ \A a, b \in DOMAIN rows :
                       a # b => rows[a].resume_id # rows[b].resume_id
                /\ {rows[a].ranking : a \in DOMAIN rows} = 1 .. Len(rows)

\* C22: when the invocation has ended in failure, similarity_results holds
\* for the job posting the rows it held when the request arrived
C22_FailureKeepsRows ==
    Failed =>
        \A j \in DOMAIN job_postings :
            RowsOfJob(job_postings[j].id)
                = SelectSeq(cs.before,
                            LAMBDA row : row.job_posting_id = job_postings[j].id)

\* the tokens the query and the only candidate of the run have in common
SharedTokens == Range(JobTokens(cs.jobPosting)) \cap Range(ResumeTokens(1))

\* a weight vector without the keys outside a set
Restricted(vec, keys) == [t \in (DOMAIN vec) \cap keys |-> vec[t]]

\* C23: in a run with exactly one candidate (a corpus of 2 documents), every
\* token that occurs in only one of the two documents has weight 0, the
\* score is the score of the two vectors restricted to the shared tokens,
\* it is 0 when no token is shared and 100.00 when exactly one distinct
\* token is shared, whatever the other tokens are
C23_OneCandidateSharedTokens ==
    (cs.pc = "delete" /\ Len(cs.resumes) = 1) =>
        LET corpus == Corpus
            shared == SharedTokens
            vec1   == calculateTfIdf(corpus[1], corpus)
            vec2   == calculateTfIdf(corpus[2], corpus)
            score  == cs.results[1].similarity
        IN  /\ Len(corpus) = 2
            /\ \A t \in (DOMAIN vec1) \ shared : vec1[t] = 0
            /\ \A t \in (DOMAIN vec2) \ shared : vec2[t] = 0
            /\ score = similarityPercent(cosineSimilarity(Restricted(vec1, shared),
                                                          Restricted(vec2, shared)))
            /\ shared = {} => score = 0
            /\ Cardinality(shared) = 1 => score = 10000

\* one candidate that shares exactly one token with the query, each of the
\* two having a token the other has not, scored 100.00
C23_Witness ==
    /\ cs.pc = "delete"
    /\ Len(cs.resumes) = 1
    /\ Cardinality(SharedTokens) = 1
    /\ Range(JobTokens(cs.jobPosting)) \ SharedTokens # {}
    /\ Range(ResumeTokens(1)) \ SharedTokens # {}
    /\ cs.results[1].similarity = 10000

\* a step in which onComplete is invoked
OnCompleteInvoked == upload'.completed # upload.completed

\* a step in which handleSubmit ends in its catch block
ErrorCaught == upload'.running < upload.running /\ upload'.stage # "complete"

\* C24: onComplete(jobPostingId) is invoked at most once per submission and
\* only in stage 'complete', which is entered only when
\* process-job-description and calculate-similarity have both reported
\* success; an error resets the stage to 'idle' with progress 0, invokes
\* nothing and leaves no invocation pending
C24_CompleteOnceAfterSuccess ==
    [][ /\ OnCompleteInvoked =>
               /\ upload.stage = "complete"
               /\ upload'.completed = Append(upload.completed, upload.jobPostingId)
               /\ upload.jobPostingId \notin Range(upload.completed)
               /\ \E j \in DOMAIN job_postings :
                      job_postings[j].id = upload.jobPostingId
               /\ RowsOfJob(upload.jobPostingId) # <<>>
        /\ (upload.stage # "complete" /\ upload'.stage = "complete") =>
               /\ Has(upload, "jobPostingId")
               /\ cs.pc = "done"
               /\ cs.request.data.jobPostingId = upload.jobPostingId
               /\ cs.response.success
        /\ ErrorCaught =>
               /\ upload'.stage = "idle"
               /\ upload'.progress = 0
               /\ upload'.pc = "idle"
               /\ upload'.completed = upload.completed
        /\ upload.stage = "idle" => upload.pc = "idle"
      ]_vars

\* one submission has ended in an error after its job posting was stored,
\* and a later one has invoked onComplete
C24_Witness ==
    /\ Len(job_postings) = 2
    /\ upload.pc = "finished"
    /\ upload.completed = <<2>>

\* C25: showResults is true only if activeJobId is not null, ResultsDisplay
\* is rendered exactly when showResults is true, so never with a null
\* jobPostingId, and after handleReset showResults is false and activeJobId
\* is null until the next handleProcessingComplete
C25_ResultsHaveJob ==
    /\ dashboard.showResults =>
           /\ dashboard.activeJobId # Null
           /\ dashboard.activeJobId = upload.completed[Len(upload.completed)]
    /\ display.pc # "unmounted" <=> dashboard.showResults
    /\ upload.pc # "finished" => dashboard = NoDashboard

\* handleReset has run after a handleProcessingComplete
C25_Witness ==
    /\ upload.completed # <<>>
    /\ upload.pc # "finished"
    /\ dashboard = NoDashboard

\* C26: the list ResultsDisplay shows is in ascending order of the stored
\* ranking: the i-th row shown carries ranking i
C26_ShownInRankingOrder ==
    display.pc = "shown" =>
        \A i \in DOMAIN display.results : display.results[i].ranking = i

====
